---- MODULE Spec2Model ----
(***************************************************************************)
(* DiscordTrelloWatch (src/main.py): the polling task check_trello_activity *)
(* and the slash commands list_boards, reset_bot, set_refresh_interval and  *)
(* watch_board, all coroutines of one asyncio event loop sharing the global *)
(* bot_config.  A coroutine runs without interruption from one await to the *)
(* next; the other coroutines run only while it is suspended at an await.   *)
(***************************************************************************)
EXTENDS Integers, Sequences, FiniteSets, Bags, TLC

\* ------------------------------------------------------------------ bounds

\* activity records in one answer of the board actions query
MaxActions == 2
\* commands the bot receives in one run
MaxCommands == 3

\* --------------------------------------------------------------- constants

\* Config(3600, 3600, dict()) and reset_bot's refresh_interval = 3600
DefaultInterval == 3600
\* set_refresh_interval: refresh_interval * 60
SecondsPerMinute == 60

\* ------------------------------------------------------------ input domains

\* ctx.channel_id of the channels commands are issued from
Channels == {1, 2}
\* board.get('name') as answered by get_board
Names == {"Roadmap"}
\* the refresh_interval argument of set_refresh_interval, in minutes
Minutes == {0}
\* card shortLinks and ages (utcnow() - action date, seconds) in query answers
CardIds == {"c1", "c2"}
Ages == {30, 4000}

\* board_url arguments, as sequences of characters: a url, the same url in
\* upper case, and a url with a second "/" after its "b/"
UrlX == <<"b", "/", "x", "/">>
UrlXUpper == <<"B", "/", "X", "/">>
UrlY == <<"b", "/", "y", "/", "n", "/">>
Urls == {UrlX, UrlXUpper, UrlY}

\* ------------------------------------------------------- pure functions

\* str.lower() on one character of the alphabet used by Urls
LowerChar(c) ==
    CASE c = "B" -> "b"
      [] c = "X" -> "x"
      [] OTHER -> c

\* str.lower()
Lower(u) == [k \in 1..Len(u) |-> LowerChar(u[k])]

\* the positions (i, j) at which r"b/(.*)/" can match u: "b/" at i, a later
\* "/" at j, and no line break in between ("." does not match "\n")
MatchEnds(u) ==
    {p \in (1..Len(u)) \X (1..Len(u)) :
        /\ p[1] + 1 <= Len(u)
        /\ u[p[1]] = "b"
        /\ u[p[1] + 1] = "/"
        /\ p[2] >= p[1] + 2
        /\ u[p[2]] = "/"
        /\ \A k \in (p[1] + 2)..(p[2] - 1) : u[k] # "\n"}

\* re.search(r"b/(.*)/", u) is not None
Parses(u) == MatchEnds(u) # {}

\* re.search(r"b/(.*)/", u).group(1): leftmost start, ".*" greedy
BoardId(u) ==
    LET i == CHOOSE a \in {p[1] : p \in MatchEnds(u)} :
                 \A p \in MatchEnds(u) : a <= p[1]
        j == CHOOSE e \in {p[2] : p \in MatchEnds(u) \cap ({i} \X (1..Len(u)))} :
                 \A p \in MatchEnds(u) \cap ({i} \X (1..Len(u))) : e >= p[2]
    IN  SubSeq(u, i + 2, j - 1)

\* bot_config.channels is a dict[int, set[tuple[str, str]]]: a sequence of
\* entries in insertion order, each a channel and its set of (name, url)
EmptyDict == <<>>

Keys(d) == {d[k].ch : k \in 1..Len(d)}

\* dict.get(c): the set stored under c, the empty set standing for None
DictGet(d, c) ==
    IF c \in Keys(d)
    THEN LET k == CHOOSE k \in 1..Len(d) : d[k].ch = c IN d[k].boards
    ELSE {}

\* the answers of the board actions query: up to MaxActions records
Actions == [card : CardIds, age : Ages]
Answers == UNION {[1..n -> Actions] : n \in 0..MaxActions}

\* the window test of one activity record: diff <= timedelta(seconds=prev)
InWindow(action, window) == action.age <= window

\* the cards of an answer, the window test left out
QualifyingCardsUntested(answer, window) ==
    {answer[k].card : k \in 1..Len(answer)}

\* the cards of an answer that pass the window test, collected in a set
QualifyingCards(answer, window) ==
    {answer[k].card : k \in {n \in 1..Len(answer) : InWindow(answer[n], window)}}

\* ------------------------------------------------------------------ state

VARIABLES
    refresh_interval,       \* bot_config.refresh_interval (seconds)
    prev_refresh_interval,  \* bot_config.prev_refresh_interval (seconds)
    channels,               \* bot_config.channels
    old_channels,           \* the dict under enumeration once reset_bot replaced it
    it_alias,               \* the dict under enumeration is bot_config.channels
    s_pc,                   \* where check_trello_activity stands
    s_err,                  \* the exception that ended check_trello_activity
    di_pos,                 \* dict iterator: entries already yielded
    di_used,                \* dict iterator: size of the dict when it was made
    channel,                \* loop variable of line 69
    si_seen,                \* set iterator: boards already yielded
    si_used,                \* set iterator: size of the set when it was made
    board,                  \* loop variable of line 71
    board_id,               \* board_id of line 73
    cards,                  \* the set built at line 92
    cards_left,             \* iterator of line 100: cards not yet yielded
    drift_time,             \* drift_time
    pending,                \* watch_board handlers suspended at get_board
    received,               \* commands received so far
    response,               \* the call a command made in the step just taken:
                            \* ctx.respond, or get_board when it suspends there
    board_actions,          \* the answer of the query, in the step that received it
    window_used,            \* the window the current board check compared with
    sent,                   \* messages delivered during the current board check
    cycle_sent,             \* messages delivered so far in the cycle in progress
    channel_sent,           \* messages delivered to the channel of line 69 in this cycle
    unpaced,                \* no asyncio.sleep(1) has completed since the last delivery
    sleep_interval,         \* refresh_interval as read for the last sleep
    sleep_arg               \* the argument of the asyncio.sleep of line 108 in progress

config == <<refresh_interval, prev_refresh_interval, channels>>
iterators == <<old_channels, it_alias, di_pos, di_used, channel, si_seen, si_used>>
locals == <<board, board_id, cards, cards_left, drift_time>>
observed == <<window_used, sent>>
tally == <<cycle_sent, channel_sent, unpaced>>
slept == <<sleep_interval, sleep_arg>>
vars == <<config, iterators, locals, observed, tally, slept, s_pc, s_err, pending,
          received, response, board_actions>>

\* no board, and no response (0 stands for no channel)
NoBoard == <<>>
NoResponse == [kind |-> "none", ch |-> 0, by |-> 0, url |-> <<>>]
\* no board check has read the window yet
NoWindow == <<>>
\* the step just taken received no answer of the query
NoAnswer == <<>>

\* the dict object the scheduler's iterator of line 69 walks
IterDict == IF it_alias THEN channels ELSE old_channels

\* bot_config = Config(3600, 3600, dict()); the task is created before bot.run()
Init ==
    /\ refresh_interval = DefaultInterval
    /\ prev_refresh_interval = DefaultInterval
    /\ channels = EmptyDict
    /\ old_channels = EmptyDict
    /\ it_alias = TRUE
    /\ s_pc = "cycle_start"
    /\ s_err = "none"
    /\ di_pos = 0
    /\ di_used = 0
    /\ channel = 0
    /\ si_seen = {}
    /\ si_used = 0
    /\ board = NoBoard
    /\ board_id = <<>>
    /\ cards = {}
    /\ cards_left = {}
    /\ drift_time = 0
    /\ pending = EmptyBag
    /\ received = 0
    /\ response = NoResponse
    /\ board_actions = NoAnswer
    /\ window_used = NoWindow
    /\ sent = <<>>
    /\ cycle_sent = 0
    /\ channel_sent = <<>>
    /\ unpaced = FALSE
    /\ sleep_interval = DefaultInterval
    /\ sleep_arg = 0

\* --------------------------------------------- check_trello_activity

\* the awaits of check_trello_activity: lines 81-82, 95, 98, 102, 103, 108
Suspended == {"query", "send_header", "pace_header", "send_card", "pace_card", "sleep"}

\* the window read from the interval a command may just have set
WindowFromCurrent == refresh_interval

\* the look-back window of lines 91 and 96
Window == prev_refresh_interval

\* a step of the polling task answers no command; only the step resumed by
\* resp.json() holds the answer of the query
Quiet ==
    /\ response' = NoResponse
    /\ board_actions' = NoAnswer

\* an exception nothing catches ends the task; its frame is gone
Raise(err) ==
    /\ s_pc' = "dead"
    /\ s_err' = err
    /\ di_pos' = 0
    /\ di_used' = 0
    /\ channel' = 0
    /\ si_seen' = {}
    /\ si_used' = 0
    /\ old_channels' = EmptyDict
    /\ it_alias' = TRUE
    /\ board' = NoBoard
    /\ board_id' = <<>>
    /\ cards' = {}
    /\ cards_left' = {}
    /\ drift_time' = 0
    /\ sent' = <<>>
    /\ window_used' = NoWindow
    /\ cycle_sent' = 0
    /\ channel_sent' = <<>>
    /\ UNCHANGED <<config, unpaced, slept, pending, received>>
    /\ Quiet

\* lines 67-69: drift_time = 0 and the iterator of bot_config.channels.items()
CycleStart ==
    /\ s_pc = "cycle_start"
    /\ s_pc' = "next_channel"
    /\ drift_time' = 0
    /\ it_alias' = TRUE
    /\ old_channels' = EmptyDict
    /\ di_pos' = 0
    /\ di_used' = Len(channels)
    /\ channel' = 0
    /\ si_seen' = {}
    /\ si_used' = 0
    /\ cycle_sent' = 0
    /\ channel_sent' = <<>>
    /\ Quiet
    /\ UNCHANGED <<config, board, board_id, cards, cards_left, observed, unpaced, slept,
                   s_err, pending, received>>

\* line 69, next() of the dict iterator: RuntimeError when the dict changed
\* size since the iterator was made, else the next entry or the end
NextChannel ==
    /\ s_pc = "next_channel"
    /\ IF di_used # Len(IterDict)
       THEN Raise("RuntimeError")
       ELSE /\ IF di_pos >= Len(IterDict)
               THEN /\ s_pc' = "commit"
                    /\ channel' = 0
                    /\ si_seen' = {}
                    /\ si_used' = 0
                    /\ di_pos' = 0
                    /\ di_used' = 0
                    /\ it_alias' = TRUE
                    /\ old_channels' = EmptyDict
               ELSE /\ s_pc' = "next_board"
                    /\ channel' = IterDict[di_pos + 1].ch
                    /\ si_seen' = {}
                    /\ si_used' = Cardinality(IterDict[di_pos + 1].boards)
                    /\ di_pos' = di_pos + 1
                    /\ UNCHANGED <<di_used, it_alias, old_channels>>
            /\ board' = NoBoard
            /\ board_id' = <<>>
            /\ cards' = {}
            /\ cards_left' = {}
            /\ window_used' = NoWindow
            /\ sent' = <<>>
            /\ channel_sent' = <<>>
            /\ Quiet
            /\ UNCHANGED <<config, drift_time, cycle_sent, unpaced, slept, s_err, pending,
                           received>>

\* lines 71-73, next() of the set iterator: RuntimeError when the set changed
\* size, else any board not yet yielded (a set has no order) or the end;
\* then cards = set() and the board id, AttributeError when the url has none
NextBoard ==
    /\ s_pc = "next_board"
    /\ IF si_used # Cardinality(DictGet(IterDict, channel))
       THEN Raise("RuntimeError")
       ELSE IF si_seen = DictGet(IterDict, channel)
       THEN /\ s_pc' = "next_channel"
            /\ board' = NoBoard
            /\ board_id' = <<>>
            /\ cards' = {}
            /\ cards_left' = {}
            /\ window_used' = NoWindow
            /\ sent' = <<>>
            /\ Quiet
            /\ UNCHANGED <<config, iterators, drift_time, tally, slept, s_err, pending,
                           received>>
       ELSE \E b \in DictGet(IterDict, channel) \ si_seen :
               IF ~Parses(b[2])
               THEN Raise("AttributeError")
               ELSE /\ s_pc' = "query"
                    /\ board' = b
                    /\ board_id' = BoardId(b[2])
                    /\ si_seen' = si_seen \cup {b}
                    /\ cards' = {}
                    /\ cards_left' = {}
                    /\ window_used' = NoWindow
                    /\ sent' = <<>>
                    /\ Quiet
                    /\ UNCHANGED <<config, old_channels, it_alias, di_pos, di_used, channel,
                                   si_used, drift_time, tally, slept, s_err, pending,
                                   received>>

\* lines 74-82: session.get or resp.json() raises (no connection, a timeout,
\* a body that is not JSON); nothing in the task catches it
QueryRaises ==
    /\ s_pc = "query"
    /\ \E err \in {"ClientError", "ContentTypeError"} : Raise(err)

\* lines 83-84: a status other than 200: break leaves the loop of line 71
QueryNotOk ==
    /\ s_pc = "query"
    /\ s_pc' = "next_channel"
    /\ board' = NoBoard
    /\ board_id' = <<>>
    /\ Quiet
    /\ UNCHANGED <<config, iterators, cards, cards_left, drift_time, observed, tally,
                   slept, s_err, pending, received>>

\* lines 86-94: status 200: the cards of the records inside the window; with
\* no card the loop of line 100 is empty and the next board follows
QueryOk ==
    /\ s_pc = "query"
    /\ \E answer \in Answers :
          /\ board_actions' = <<answer>>
          /\ window_used' = <<Window>>
          /\ cards' = QualifyingCards(answer, Window)
          /\ s_pc' = IF QualifyingCards(answer, Window) = {} THEN "next_board"
                     ELSE "send_header"
    /\ response' = NoResponse
    /\ UNCHANGED <<config, iterators, board, board_id, cards_left, drift_time, sent,
                   tally, slept, s_err, pending, received>>

\* lines 95-97: create_message of the header, delivered or raising
SendHeader ==
    /\ s_pc = "send_header"
    /\ \/ /\ s_pc' = "pace_header"
          /\ sent' = Append(sent, "header")
          /\ cycle_sent' = cycle_sent + 1
          /\ channel_sent' = Append(channel_sent, "header")
          /\ unpaced' = TRUE
          /\ Quiet
          /\ UNCHANGED <<config, iterators, locals, window_used, slept,
                         s_err, pending, received>>
       \/ Raise("HTTPException")

\* lines 98-100: the pacing sleep is over; drift_time = len(cards) + 1 and
\* the iterator of the loop over cards
PaceHeader ==
    /\ s_pc = "pace_header"
    /\ s_pc' = "send_card"
    /\ drift_time' = Cardinality(cards) + 1
    /\ cards_left' = cards
    /\ unpaced' = FALSE
    /\ Quiet
    /\ UNCHANGED <<config, iterators, board, board_id, cards, observed, cycle_sent,
                   channel_sent, slept, s_err, pending, received>>

\* the card delivered and the next one sent with no asyncio.sleep(1) between
SendCardUnpaced ==
    /\ s_pc = "send_card"
    /\ \/ \E card \in cards_left :
             /\ s_pc' = IF cards_left = {card} THEN "next_board" ELSE "send_card"
             /\ cards_left' = cards_left \ {card}
             /\ sent' = Append(sent, card)
             /\ cycle_sent' = cycle_sent + 1
             /\ channel_sent' = Append(channel_sent, card)
             /\ unpaced' = TRUE
             /\ Quiet
             /\ UNCHANGED <<config, iterators, board, board_id, cards, drift_time,
                            window_used, slept, s_err, pending, received>>
       \/ Raise("HTTPException")

\* lines 100-102: create_message of the card the iterator yielded (any card
\* not yet yielded), delivered or raising
SendCard ==
    /\ s_pc = "send_card"
    /\ \/ \E card \in cards_left :
             /\ s_pc' = "pace_card"
             /\ cards_left' = cards_left \ {card}
             /\ sent' = Append(sent, card)
             /\ cycle_sent' = cycle_sent + 1
             /\ channel_sent' = Append(channel_sent, card)
             /\ unpaced' = TRUE
             /\ Quiet
             /\ UNCHANGED <<config, iterators, board, board_id, cards, drift_time,
                            window_used, slept, s_err, pending, received>>
       \/ Raise("HTTPException")

\* line 103 and back to line 100 or 71: the pacing sleep is over
PaceCard ==
    /\ s_pc = "pace_card"
    /\ s_pc' = IF cards_left = {} THEN "next_board" ELSE "send_card"
    /\ unpaced' = FALSE
    /\ Quiet
    /\ UNCHANGED <<config, iterators, locals, observed, cycle_sent, channel_sent, slept,
                   s_err, pending, received>>

\* the sleep computed from the interval found after a command ran between
\* line 105 and line 108
CommitThenAwait ==
    /\ s_pc = "commit"
    /\ s_pc' = "sleep"
    /\ prev_refresh_interval' = refresh_interval
    /\ sleep_interval' = DefaultInterval
    /\ sleep_arg' = DefaultInterval - drift_time
    /\ cycle_sent' = 0
    /\ Quiet
    /\ UNCHANGED <<refresh_interval, channels, iterators, locals, observed, channel_sent,
                   unpaced, s_err, pending, received>>

\* lines 105-108, one stretch without an await: prev_refresh_interval is set
\* and the sleep of refresh_interval - drift_time begins; the cycle is over
Commit ==
    /\ s_pc = "commit"
    /\ s_pc' = "sleep"
    /\ prev_refresh_interval' = refresh_interval
    /\ sleep_interval' = refresh_interval
    /\ sleep_arg' = refresh_interval - drift_time
    /\ cycle_sent' = 0
    /\ Quiet
    /\ UNCHANGED <<refresh_interval, channels, iterators, locals, observed, channel_sent,
                   unpaced, s_err, pending, received>>

\* line 108: the sleep is over (asyncio.sleep returns at once for a delay <= 0)
Wake ==
    /\ s_pc = "sleep"
    /\ s_pc' = "cycle_start"
    /\ sleep_arg' = 0
    /\ Quiet
    /\ UNCHANGED <<config, iterators, locals, observed, tally, sleep_interval, s_err,
                   pending, received>>

Scheduler ==
    \/ CycleStart
    \/ NextChannel
    \/ NextBoard
    \/ QueryRaises
    \/ QueryNotOk
    \/ QueryOk
    \/ SendHeader
    \/ PaceHeader
    \/ SendCard
    \/ PaceCard
    \/ Commit
    \/ Wake

\* ------------------------------------------------------------ the commands

\* a command handler runs while the polling task is suspended at an await,
\* or after it ended
CanRun == s_pc \in Suspended \cup {"dead"}

\* one more command is received and its handler starts
Receive ==
    /\ CanRun
    /\ received < MaxCommands
    /\ received' = received + 1

\* the polling task holds an iterator of bot_config.channels
Iterating == s_pc \in Suspended \ {"sleep"}

Respond(kind, ch, by, url) ==
    /\ response' = [kind |-> kind, ch |-> ch, by |-> by, url |-> url]
    /\ board_actions' = NoAnswer

\* line 211: board[1].lower() == board_url.lower()
SameUrl(stored, url) == Lower(stored) = Lower(url)

\* the search for the url given up after the first entry of the dict
WatchedAtFirst(d, url) ==
    {k \in 1..Len(d) : k = 1 /\ \E b \in d[k].boards : SameUrl(b[2], url)}

\* lines 209-211: the entries of the dict holding a board with the same url
WatchedAt(d, url) ==
    {k \in 1..Len(d) : \E b \in d[k].boards : SameUrl(b[2], url)}

\* lines 209-214: the channel named in the answer, the first such entry
OwnerOf(d, url) ==
    d[CHOOSE k \in WatchedAt(d, url) : \A n \in WatchedAt(d, url) : k <= n].ch

\* the board always stored as a new set under the channel, as line 227 does
InsertFresh(d, c, b) ==
    IF c \in Keys(d)
    THEN [k \in 1..Len(d) |-> IF d[k].ch = c THEN [ch |-> c, boards |-> {b}] ELSE d[k]]
    ELSE Append(d, [ch |-> c, boards |-> {b}])

\* lines 224-227: add to the channel's set when it has a non-empty one, else
\* store a new set under the channel (a new key goes last)
Insert(d, c, b) ==
    IF DictGet(d, c) # {}
    THEN [k \in 1..Len(d) |->
             IF d[k].ch = c THEN [ch |-> c, boards |-> d[k].boards \cup {b}] ELSE d[k]]
    ELSE IF c \in Keys(d)
    THEN [k \in 1..Len(d) |-> IF d[k].ch = c THEN [ch |-> c, boards |-> {b}] ELSE d[k]]
    ELSE Append(d, [ch |-> c, boards |-> {b}])

\* lines 144-149: the text of list_boards(all_boards=True): per channel, in
\* the dict's order, one line per board with its name
Summary(d) ==
    [k \in 1..Len(d) |->
        [ch |-> d[k].ch,
         lines |-> [n \in Names |-> Cardinality({b \in d[k].boards : b[1] = n})]]]

\* lines 133-156: list_boards reads the registry and answers
ListBoards(c, all_boards) ==
    /\ Receive
    /\ IF all_boards
       THEN Respond("list_all", 0, 0, <<>>)
       ELSE IF DictGet(channels, c) # {}
       THEN Respond("list", 0, 0, <<>>)
       ELSE Respond("list_none", 0, 0, <<>>)
    /\ UNCHANGED <<config, iterators, locals, observed, tally, slept, s_pc, s_err, pending>>

\* reset_bot emptying the set of every channel and keeping the keys
ResetBotEmptying ==
    /\ Receive
    /\ refresh_interval' = DefaultInterval
    /\ channels' = [k \in 1..Len(channels) |-> [ch |-> channels[k].ch, boards |-> {}]]
    /\ Respond("reset", 0, 0, <<>>)
    /\ UNCHANGED <<prev_refresh_interval, iterators, locals, observed, tally, slept, s_pc,
                   s_err, pending>>

\* reset_bot emptying the dict in place (channels.clear()): the iterator the
\* polling task holds walks the emptied dict
ResetBotClearing ==
    /\ Receive
    /\ refresh_interval' = DefaultInterval
    /\ channels' = EmptyDict
    /\ Respond("reset", 0, 0, <<>>)
    /\ UNCHANGED <<prev_refresh_interval, iterators, locals, observed, tally, slept, s_pc,
                   s_err, pending>>

\* lines 161-173: reset_bot; the dict is replaced, so an iterator the polling
\* task holds keeps walking the old one
ResetBot ==
    /\ Receive
    /\ refresh_interval' = DefaultInterval
    /\ channels' = EmptyDict
    /\ IF Iterating /\ it_alias
       THEN old_channels' = channels /\ it_alias' = FALSE
       ELSE UNCHANGED <<old_channels, it_alias>>
    /\ Respond("reset", 0, 0, <<>>)
    /\ UNCHANGED <<prev_refresh_interval, di_pos, di_used, channel, si_seen, si_used,
                   locals, observed, tally, slept, s_pc, s_err, pending>>

\* set_refresh_interval writing both intervals
SetRefreshIntervalBoth(minutes) ==
    /\ Receive
    /\ refresh_interval' = minutes * SecondsPerMinute
    /\ prev_refresh_interval' = minutes * SecondsPerMinute
    /\ Respond("interval", 0, 0, <<>>)
    /\ UNCHANGED <<channels, iterators, locals, observed, tally, slept, s_pc, s_err,
                   pending>>

\* lines 178-189: set_refresh_interval
SetRefreshInterval(minutes) ==
    /\ Receive
    /\ refresh_interval' = minutes * SecondsPerMinute
    /\ Respond("interval", 0, 0, <<>>)
    /\ UNCHANGED <<prev_refresh_interval, channels, iterators, locals, observed, tally,
                   slept, s_pc, s_err, pending>>

\* a watch_board handler suspended at get_board: its channel and its url
Handler(c, url) == [ch |-> c, url |-> url]

\* lines 204-218: watch_board up to its first await: the url is refused, or
\* found in the registry, or the handler suspends at get_board
WatchBoard(c, url) ==
    /\ Receive
    /\ IF ~Parses(url)
       THEN /\ Respond("incorrect", 0, c, url)
            /\ UNCHANGED pending
       ELSE IF WatchedAt(channels, url) # {}
       THEN /\ Respond("already", OwnerOf(channels, url), c, url)
            /\ UNCHANGED pending
       ELSE /\ pending' = pending (+) SetToBag({Handler(c, url)})
            /\ Respond("get_board", 0, c, url)
    /\ UNCHANGED <<config, iterators, locals, observed, tally, slept, s_pc, s_err>>

\* lines 218, 224-230: get_board answered; the board is stored
WatchAdded(h) ==
    /\ CanRun
    /\ UNCHANGED received
    /\ BagIn(h, pending)
    /\ \E name \in Names :
          channels' = Insert(channels, h.ch, <<name, h.url>>)
    /\ Respond("added", h.ch, h.ch, h.url)
    /\ pending' = pending (-) SetToBag({h})
    /\ UNCHANGED <<refresh_interval, prev_refresh_interval, iterators, locals, observed,
                   tally, slept, s_pc, s_err>>

\* the board stored before get_board is awaited, and left there when it fails
WatchLookupFailedStored(h) ==
    /\ CanRun
    /\ UNCHANGED received
    /\ BagIn(h, pending)
    /\ Respond("lookup_failed", 0, h.ch, h.url)
    /\ channels' = Insert(channels, h.ch, <<"", h.url>>)
    /\ pending' = pending (-) SetToBag({h})
    /\ UNCHANGED <<refresh_interval, prev_refresh_interval, iterators, locals, observed,
                   tally, slept, s_pc, s_err>>

\* lines 218-222: get_board raised ClientResponseError; the traceback is the
\* answer.  Any other exception of get_board ends the handler unanswered.
WatchLookupFailed(h) ==
    /\ CanRun
    /\ UNCHANGED received
    /\ BagIn(h, pending)
    /\ \/ Respond("lookup_failed", 0, h.ch, h.url)
       \/ Respond("unanswered", 0, h.ch, h.url)
    /\ pending' = pending (-) SetToBag({h})
    /\ UNCHANGED <<config, iterators, locals, observed, tally, slept, s_pc, s_err>>

Command ==
    \/ \E c \in Channels, all_boards \in BOOLEAN : ListBoards(c, all_boards)
    \/ ResetBot
    \/ \E minutes \in Minutes : SetRefreshInterval(minutes)
    \/ \E c \in Channels, url \in Urls : WatchBoard(c, url)
    \/ \E c \in Channels, url \in Urls : WatchAdded(Handler(c, url))
    \/ \E c \in Channels, url \in Urls : WatchLookupFailed(Handler(c, url))

Next == Scheduler \/ Command

Spec == Init /\ [][Next]_vars

\* ------------------------------------------------------------- properties

\* the entries of the registry holding a board whose url equals url when
\* both are lower-cased
StoredAt(url) ==
    {k \in 1..Len(channels) :
        \E b \in channels[k].boards : Lower(b[2]) = Lower(url)}

\* the card messages among the messages of the current board check
SentCards == {sent[i] : i \in {n \in 1..Len(sent) : sent[n] # "header"}}

\* C1: the window every board check compares with is the interval that was
\* read for the sleep before the cycle (3600 before the first sleep), whatever
\* set_refresh_interval or reset_bot requested since that sleep began.
WindowIsSleptInterval ==
    window_used # NoWindow => window_used = <<sleep_interval>>

\* C1 witness: a board check compared with the slept interval although
\* another interval had been requested in the meantime.
WindowIgnoresRequest ==
    /\ window_used # NoWindow
    /\ window_used = <<sleep_interval>>
    /\ refresh_interval # sleep_interval

NoDuplicateBoards ==
    \A k1, k2 \in 1..Len(channels) :
        \A b1 \in channels[k1].boards, b2 \in channels[k2].boards :
            Lower(b1[2]) = Lower(b2[2]) => (k1 = k2 /\ b1 = b2)

\* C4: a watch_board that completes while the polling task is suspended
\* inside a cycle never makes the enumeration of the registry fail, also
\* when every board of the registry is watched once.
EnumerationSurvivesWatch ==
    NoDuplicateBoards => s_err # "RuntimeError"

\* C5: right after reset_bot the registry is empty, list_boards(all) has no
\* channel to show, and both intervals are the default.
ResetRestoresDefaults ==
    response.kind = "reset" =>
        /\ channels = EmptyDict
        /\ Summary(channels) = <<>>
        /\ refresh_interval = DefaultInterval
        /\ prev_refresh_interval = DefaultInterval

\* C6: the duration handed to the sleep that ends a cycle is
\* max(interval - drift, 0), so never negative.
SleepIsClamped ==
    s_pc = "sleep" =>
        sleep_arg = (IF sleep_interval - drift_time > 0
                     THEN sleep_interval - drift_time ELSE 0)

\* C7: when the polling task leaves a channel whose set no command touched
\* meanwhile, every board of the channel was queried in this cycle, a failed
\* query skipping its own board only.
FailedQuerySkipsOneBoard ==
    (/\ s_pc = "next_channel"
     /\ channel # 0
     /\ si_used = Cardinality(DictGet(IterDict, channel)))
    => si_seen = DictGet(IterDict, channel)

\* C8: no outcome of an outbound call (query, notification) ends the
\* polling task.
OutboundFailureNeverStopsTask ==
    s_err \notin {"ClientError", "ContentTypeError", "HTTPException"}

\* C9: in one board check, the cards to notify are exactly the cards with at
\* least one record inside the window; each is sent at most once, none else
\* is sent, and when the check is over each has been sent exactly once.
OneNotificationPerCard ==
    /\ board_actions # NoAnswer =>
          cards = {c \in CardIds :
                      \E k \in 1..Len(board_actions[1]) :
                          /\ board_actions[1][k].card = c
                          /\ board_actions[1][k].age <= window_used[1]}
    /\ \A i, j \in 1..Len(sent) : sent[i] = sent[j] => i = j
    /\ SentCards \subseteq cards
    /\ (s_pc = "next_board" /\ sent # <<>>) => SentCards = cards

\* C9 witness: an answer with two records of one card, both inside the
\* window, gave one card to notify.
TwoRecordsOneCard ==
    /\ board_actions # NoAnswer
    /\ Len(board_actions[1]) = 2
    /\ board_actions[1][1].card = board_actions[1][2].card
    /\ board_actions[1][1].age <= window_used[1]
    /\ board_actions[1][2].age <= window_used[1]
    /\ cards = {board_actions[1][1].card}

\* C10: a watch_board that ends with a refused url, an already watched url
\* or a failed lookup changes neither the registry nor the two intervals.
FailedWatchChangesNothing ==
    [][response'.kind \in {"incorrect", "already", "lookup_failed", "unanswered"}
       => UNCHANGED <<channels, refresh_interval, prev_refresh_interval>>]_vars

\* C10 witness: a lookup failed while boards were registered.
LookupFailedWithBoards ==
    /\ response.kind = "lookup_failed"
    /\ channels # EmptyDict

\* C11: a watch_board that ends with the board added leaves the registry as
\* it was just before, except that the set of the calling channel also holds
\* (name, url); the channel gets an entry, after the others, when it had
\* none; no other channel's set and neither interval changes.
WatchAddsOneBoard ==
    [][response'.kind = "added" =>
          /\ \E name \in Names :
                DictGet(channels', response'.by)
                    = DictGet(channels, response'.by) \cup {<<name, response'.url>>}
          /\ Keys(channels') = Keys(channels) \cup {response'.by}
          /\ \A k \in 1..Len(channels) : channels'[k].ch = channels[k].ch
          /\ \A c \in Channels \ {response'.by} :
                DictGet(channels', c) = DictGet(channels, c)
          /\ UNCHANGED <<refresh_interval, prev_refresh_interval>>]_vars

\* C11 witness: a board was added to a channel that already watched one,
\* while another channel watched one too.
AddedToWatchedChannel ==
    /\ response.kind = "added"
    /\ Cardinality(DictGet(channels, response.by)) = 2
    /\ Len(channels) = 2

\* the text between the first "b/" of u that a "/" follows and the next "/"
Segment(u) ==
    LET starts == {a \in 1..Len(u) :
                      /\ a + 1 <= Len(u)
                      /\ u[a] = "b"
                      /\ u[a + 1] = "/"
                      /\ \E e \in (a + 2)..Len(u) : u[e] = "/"}
        i == CHOOSE a \in starts : \A a2 \in starts : a <= a2
        ends == {e \in (i + 2)..Len(u) : u[e] = "/"}
        j == CHOOSE e \in ends : \A e2 \in ends : e <= e2
    IN  SubSeq(u, i + 2, j - 1)

\* C12: the board id the polling task extracts from a stored url is the text
\* between "b/" and the next "/"; every stored url has such a segment.
BoardIdIsNextSegment ==
    /\ \A k \in 1..Len(channels) : \A b \in channels[k].boards : Parses(b[2])
    /\ board # NoBoard => board_id = Segment(board[2])

\* C13: when the cycle reaches line 105, drift_time is the number of messages
\* (headers and cards) delivered in the cycle, so 0 exactly when none was.
DriftCountsCycleMessages ==
    s_pc = "commit" => drift_time = cycle_sent

\* C14: the messages a channel gets in one cycle are none, or one header
\* first and then one message per card, no card twice and no second header.
OneHeaderPerChannel ==
    /\ channel_sent # <<>> =>
          /\ channel_sent[1] = "header"
          /\ \A i, j \in 1..Len(channel_sent) :
                channel_sent[i] = channel_sent[j] => i = j
    /\ (s_pc = "next_channel" /\ channel_sent # <<>>) => Len(channel_sent) >= 2

\* C15: prev_refresh_interval changes only in the step from line 105 to the
\* sleep, which every cycle that reaches line 105 takes once and which writes
\* refresh_interval as it then is; set_refresh_interval(minutes) sets
\* refresh_interval to minutes * 60 and leaves prev_refresh_interval and the
\* registry alone.
OnlyCommitWritesPrevious ==
    [][/\ s_pc = "commit" =>
             /\ s_pc' = "sleep"
             /\ prev_refresh_interval' = refresh_interval
             /\ refresh_interval' = refresh_interval
       /\ s_pc # "commit" => prev_refresh_interval' = prev_refresh_interval
       /\ response'.kind = "interval" =>
             /\ refresh_interval' \in {m * SecondsPerMinute : m \in Minutes}
             /\ UNCHANGED <<prev_refresh_interval, channels>>]_vars

\* C15 witness: a cycle committed the interval set_refresh_interval had set.
CommitWroteRequestedInterval ==
    /\ s_pc = "sleep"
    /\ prev_refresh_interval = 0
    /\ sleep_interval = 0

\* C16: both intervals are greater than 0 in every state.
IntervalsArePositive ==
    /\ refresh_interval > 0
    /\ prev_refresh_interval > 0

\* C17: every channel of the registry has at least one board.
NoEmptyWatchSet ==
    \A k \in 1..Len(channels) : channels[k].boards # {}

\* C17 witness: reset_bot replaced the registry during a cycle and a board
\* was added to the new one before the cycle ended.
RegistryRefilledAfterReset ==
    /\ ~it_alias
    /\ old_channels # EmptyDict
    /\ channels # EmptyDict

\* C18: whenever the polling task sends a message, an asyncio.sleep(1) has
\* completed since the last message it delivered, in this board check, an
\* earlier one or an earlier cycle.
SendsArePaced ==
    s_pc \in {"send_header", "send_card"} => ~unpaced

\* C18 witness: the second card of a board check is being sent, the header
\* and the first card delivered and paced.
SecondCardAfterPacing ==
    /\ s_pc = "send_card"
    /\ Len(sent) = 2
    /\ ~unpaced

\* C19: the sleep that ends a cycle asks for prev_refresh_interval as just
\* written minus drift_time, both read from the same refresh_interval; the
\* window of every board check of the next cycle is that interval, so never
\* shorter than the sleep before it, whatever commands ran meanwhile.
SleepWithinNextWindow ==
    /\ s_pc = "sleep" =>
          /\ sleep_interval = prev_refresh_interval
          /\ sleep_arg = prev_refresh_interval - drift_time
          /\ sleep_arg <= sleep_interval
    /\ window_used # NoWindow => window_used[1] >= sleep_interval

\* C19 witness: a command changed refresh_interval during the sleep that
\* ended a cycle with messages.
CommandDuringDriftedSleep ==
    /\ s_pc = "sleep"
    /\ drift_time > 0
    /\ sleep_arg = prev_refresh_interval - drift_time
    /\ refresh_interval # prev_refresh_interval

\* the dict and the set under enumeration have the sizes their iterators
\* were made with
EnumerationIntact ==
    /\ di_used = Len(IterDict)
    /\ channel # 0 => si_used = Cardinality(DictGet(IterDict, channel))

\* C20: a reset_bot during a cycle empties the registry and leaves the dict
\* and the iterators of the polling task as they were; that dict then stays
\* as it is until the cycle ends, so an enumeration that was intact stays
\* intact and never fails; the next cycle enumerates the registry as it is
\* when it starts.
ResetKeepsEnumeration ==
    [][/\ (response'.kind = "reset" /\ Iterating) =>
             /\ channels' = EmptyDict
             /\ ~it_alias'
             /\ IterDict' = IterDict
             /\ UNCHANGED <<di_pos, di_used, channel, si_seen, si_used, s_pc>>
       /\ ~it_alias =>
             \/ ~it_alias' /\ old_channels' = old_channels
             \/ it_alias' /\ s_pc' \in {"commit", "dead"}
       /\ (~it_alias /\ EnumerationIntact) =>
             /\ s_err' # "RuntimeError"
             /\ ~it_alias' => EnumerationIntact'
       /\ s_pc = "cycle_start" =>
             /\ it_alias'
             /\ di_used' = Len(channels')
             /\ di_pos' = 0]_vars

\* C20 witness: after a reset_bot during a cycle emptied the registry, the
\* cycle went on to the end of a board check with messages, over the dict
\* it had started with.
CycleWentOnAfterReset ==
    /\ ~it_alias
    /\ channels = EmptyDict
    /\ old_channels # EmptyDict
    /\ EnumerationIntact
    /\ s_pc = "next_board"
    /\ sent # <<>>

====
